---- MODULE Spec2Model ----
(***************************************************************************)
(* BudgetBuddy (src/app.py): the expense store and its request handlers,   *)
(* the monthly aggregation, the comparison rows, the pie-slice geometry    *)
(* and the layout of the downloadable SVG document.                        *)
(*                                                                         *)
(* Representation.                                                         *)
(*  - Text (titles, categories, query strings) is a sequence of character  *)
(*    codes, so that ordering, case folding and stripping are computed.    *)
(*  - Money is an integer number of mills (1/1000 of the currency unit):   *)
(*    1.0 is 1000, 0.004 is 4.  Sums are exact.  round(x, 2) rounds to the  *)
(*    nearest multiple of 10 mills.                                        *)
(*  - An angle of make_pie_paths is a rational number of degrees; a slice  *)
(*    keeps the numerators over the common denominator `total`.            *)
(*  - A date is a record [y, m, d].                                        *)
(***************************************************************************)
EXTENDS Integers, Sequences, FiniteSets, TLC

VARIABLES users, session, expenses, today, resp,
          pmap, cmap, ptotal, ctotal, cmp,
          slices, total, paths

vars == <<users, session, expenses, today, resp,
          pmap, cmap, ptotal, ctotal, cmp,
          slices, total, paths>>

appVars == <<users, session, expenses, today, resp>>
cmpVars == <<pmap, cmap, ptotal, ctotal, cmp>>
pieVars == <<slices, total, paths>>

-----------------------------------------------------------------------------
(* Arithmetic helpers *)

Abs(x) == IF x < 0 THEN -x ELSE x

Max2(a, b) == IF a >= b THEN a ELSE b

\* floor(n / d) for d > 0 (TLC's \div already floors for a positive divisor)
FloorDiv(n, d) == n \div d

\* n / d rounded to the nearest integer, ties to the even neighbour: Python's
\* round() on a value that is exactly halfway.  d may be negative, d # 0.
RoundDiv(n, d) ==
    LET nn == IF d < 0 THEN -n ELSE n
        dd == Abs(d)
        q  == FloorDiv(nn, dd)
        r  == nn - q * dd
    IN  IF 2 * r < dd THEN q
        ELSE IF 2 * r > dd THEN q + 1
        ELSE IF q % 2 = 0 THEN q ELSE q + 1

\* round(x, 2) of an amount x in mills: the nearest multiple of 10 mills
Round2(x) == 10 * RoundDiv(x, 10)

RECURSIVE SumSeq(_)
SumSeq(s) == IF s = <<>> THEN 0 ELSE Head(s) + SumSeq(Tail(s))

-----------------------------------------------------------------------------
(* Text helpers *)

\* str.lower() on ASCII
LowerChar(c) == IF c >= 65 /\ c <= 90 THEN c + 32 ELSE c

Lower(s) == [i \in 1..Len(s) |-> LowerChar(s[i])]

IsSpace(c) == c = 32 \/ (c >= 9 /\ c <= 13)

RECURSIVE LStrip(_)
LStrip(s) == IF s # <<>> /\ IsSpace(Head(s)) THEN LStrip(Tail(s)) ELSE s

RECURSIVE RStrip(_)
RStrip(s) ==
    IF s # <<>> /\ IsSpace(s[Len(s)]) THEN RStrip(SubSeq(s, 1, Len(s) - 1)) ELSE s

\* str.strip()
Strip(s) == RStrip(LStrip(s))

\* str < str in Python: by code point, a proper prefix first
RECURSIVE StrLess(_, _)
StrLess(a, b) ==
    IF b = <<>> THEN FALSE
    ELSE IF a = <<>> THEN TRUE
    ELSE IF Head(a) < Head(b) THEN TRUE
    ELSE IF Head(a) > Head(b) THEN FALSE
    ELSE StrLess(Tail(a), Tail(b))

\* SQL LIKE: % (37) matches any run of characters, _ (95) any one character
RECURSIVE Like(_, _)
Like(s, pat) ==
    IF pat = <<>> THEN s = <<>>
    ELSE IF Head(pat) = 37
         THEN Like(s, Tail(pat)) \/ (s # <<>> /\ Like(Tail(s), pat))
    ELSE IF s = <<>> THEN FALSE
    ELSE (Head(pat) = 95 \/ Head(pat) = Head(s)) /\ Like(Tail(s), Tail(pat))

\* Expense.title.ilike('%q%'): LIKE on the lower-cased operands
ILikeContains(title, q) == Like(Lower(title), Lower(<<37>> \o q \o <<37>>))

\* sorted(set(...)) of strings: the elements of S in ascending order
RECURSIVE SortedStrs(_)
SortedStrs(S) ==
    IF S = {} THEN <<>>
    ELSE LET least == CHOOSE x \in S : \A y \in S \ {x} : StrLess(x, y)
         IN  <<least>> \o SortedStrs(S \ {least})

Range(s) == {s[i] : i \in 1..Len(s)}

-----------------------------------------------------------------------------
(* Calendar helpers: datetime.date *)

IsLeap(y) == (y % 4 = 0 /\ y % 100 # 0) \/ y % 400 = 0

DaysInMonth(y, m) ==
    IF m = 2 THEN (IF IsLeap(y) THEN 29 ELSE 28)
    ELSE IF m \in {4, 6, 9, 11} THEN 30 ELSE 31

\* date(y, m, d) accepts exactly these; anything else raises ValueError
ValidDate(y, m, d) ==
    /\ y >= 1 /\ y <= 9999
    /\ m >= 1 /\ m <= 12
    /\ d >= 1 /\ d <= DaysInMonth(y, m)

MkDate(y, m, d) == [y |-> y, m |-> m, d |-> d]

\* some_date - timedelta(days=1); date(1, 1, 1) has no predecessor (OverflowError)
HasPrevDay(dt) == ~(dt.y = 1 /\ dt.m = 1 /\ dt.d = 1)

PrevDay(dt) ==
    IF dt.d > 1 THEN MkDate(dt.y, dt.m, dt.d - 1)
    ELSE IF dt.m > 1 THEN MkDate(dt.y, dt.m - 1, DaysInMonth(dt.y, dt.m - 1))
    ELSE MkDate(dt.y - 1, 12, 31)

\* date ordering, for order_by(Expense.date.desc())
DateKey(dt) == (dt.y * 12 + dt.m) * 32 + dt.d

-----------------------------------------------------------------------------
(* totals_for_month: Expense rows -> (category -> sum, grand total) *)

\* RowsOfMonth with the year filter dropped
RowsOfMonthAnyYear(exps, month, year) ==
    {i \in DOMAIN exps : exps[i].date.m = month}

\* the rows the query of totals_for_month selects: extract('year') and
\* extract('month') of the stored date equal the arguments
RowsOfMonth(exps, month, year) ==
    {i \in DOMAIN exps : exps[i].date.y = year /\ exps[i].date.m = month}

RECURSIVE SumAmounts(_, _)
SumAmounts(exps, ids) ==
    IF ids = {} THEN 0
    ELSE LET i == CHOOSE x \in ids : TRUE
         IN  exps[i].amount + SumAmounts(exps, ids \ {i})

totals_for_month(exps, month, year) ==
    LET rows == RowsOfMonth(exps, month, year)
        cats == {exps[i].category : i \in rows}
    IN  [totals |-> [c \in cats |->
                        SumAmounts(exps, {i \in rows : exps[i].category = c})],
         total  |-> SumAmounts(exps, rows)]

-----------------------------------------------------------------------------
(* The comparison rows of monthly_summary and download_summary_svg *)

\* dict.get(cat, 0.0)
Get(m, k) == IF k \in DOMAIN m THEN m[k] ELSE 0

PctNone == [k |-> "none"]
PctInf == [k |-> "inf"]
PctNum(v) == [k |-> "num", v |-> v]

\* PctChange with the zero-baseline case collapsed to null
PctChangeNoInf(p, c, diff) ==
    IF c = 0 THEN PctNone ELSE PctNum(RoundDiv(diff * 10000, c))

\* pct_change of one row; a number is kept in hundredths of a percent, as
\* round((diff / c) * 100, 2) leaves it
PctChange(p, c, diff) ==
    IF c = 0 THEN (IF p = 0 THEN PctNone ELSE PctInf)
    ELSE PctNum(RoundDiv(diff * 10000, c))

\* Categories taken from the primary period alone
CategoriesPrimaryOnly(primary_totals_map, compare_totals_map) ==
    SortedStrs(DOMAIN primary_totals_map)

\* sorted(set(list(primary.keys()) + list(compare.keys())))
Categories(primary_totals_map, compare_totals_map) ==
    SortedStrs(DOMAIN primary_totals_map \cup DOMAIN compare_totals_map)

ComparisonRow(primary_totals_map, compare_totals_map, cat) ==
    LET p == Round2(Get(primary_totals_map, cat))
        c == Round2(Get(compare_totals_map, cat))
        diff == Round2(p - c)
    IN  [category |-> cat, primary |-> p, compare |-> c, diff |-> diff,
         pct_change |-> PctChange(p, c, diff)]

Comparison(primary_totals_map, compare_totals_map) ==
    LET categories == Categories(primary_totals_map, compare_totals_map)
    IN  [i \in 1..Len(categories) |->
            ComparisonRow(primary_totals_map, compare_totals_map, categories[i])]

\* primary_slices / compare_slices: one {'category', 'value'} per row
PrimarySlices(comparison) ==
    [i \in 1..Len(comparison) |->
        [category |-> comparison[i].category, value |-> comparison[i].primary]]

CompareSlices(comparison) ==
    [i \in 1..Len(comparison) |->
        [category |-> comparison[i].category, value |-> comparison[i].compare]]

\* overall_pct of monthly_summary
OverallPct(primary_total, compare_total) ==
    LET overall_diff == Round2(primary_total - compare_total)
    IN  IF compare_total = 0
        THEN (IF primary_total = 0 THEN PctNone ELSE PctInf)
        ELSE PctNum(RoundDiv(overall_diff * 10000, compare_total))

\* the literal 1.0 of the fallback denominator, in mills
One == 1000

RECURSIVE LargestValue(_, _)
LargestValue(comparison, acc) ==
    IF comparison = <<>> THEN acc
    ELSE LargestValue(Tail(comparison),
            Max2(Max2(acc, Head(comparison).primary), Head(comparison).compare))

\* MaxBarValue without the fallback
MaxBarValueNoFallback(comparison, primary_total, compare_total) ==
    LargestValue(comparison, 0)

MaxBarValue(comparison, primary_total, compare_total) ==
    LET m == LargestValue(comparison, 0)
    IN  IF m = 0 THEN Max2(Max2(primary_total, compare_total), One) ELSE m

-----------------------------------------------------------------------------
(* make_pie_paths *)

Palette == <<"#3A9AD9", "#FF6B78", "#FFD166", "#6BCB77", "#8E63FF", "#FF9F80">>

\* One emitted slice.  i is the 0-based position of the slice in the input,
\* start the running start angle.  Angles are numerators over `den` (= total):
\* angle = value / total * 360 is [span / den] degrees.  The path 'd' is
\* determined by start, end, large_arc and the fixed sweep flag; the label
\* anchor by the mid angle (numerator mid2 over 2 * den).
PieSlice(s, i, start, tot) ==
    LET value == s.value
        span == value * 360
    IN  [label |-> s.category,
         index |-> i,
         color |-> Palette[(i % Len(Palette)) + 1],
         value |-> Round2(value),
         pct |-> RoundDiv(value * 10000, tot),
         start |-> start,
         end |-> start + span,
         den |-> tot,
         large_arc |-> IF span > 180 * tot THEN 1 ELSE 0,
         sweep |-> 1,
         mid2 |-> 2 * start + span]

\* PieLoop skipping only the negative values
RECURSIVE PieLoopKeepZero(_, _, _, _)
PieLoopKeepZero(sl, i, start, tot) ==
    IF i >= Len(sl) THEN <<>>
    ELSE IF sl[i + 1].value < 0 THEN PieLoopKeepZero(sl, i + 1, start, tot)
    ELSE <<PieSlice(sl[i + 1], i, start, tot)>>
            \o PieLoopKeepZero(sl, i + 1, start + sl[i + 1].value * 360, tot)

\* PieLoop numbering the emitted slices only: a skipped slice is dropped from
\* the sequence instead of being counted
RECURSIVE PieLoopSkipUncounted(_, _, _, _)
PieLoopSkipUncounted(sl, i, start, tot) ==
    IF i >= Len(sl) THEN <<>>
    ELSE IF sl[i + 1].value <= 0
         THEN PieLoopSkipUncounted(SubSeq(sl, 1, i) \o SubSeq(sl, i + 2, Len(sl)),
                                   i, start, tot)
    ELSE <<PieSlice(sl[i + 1], i, start, tot)>>
            \o PieLoopSkipUncounted(sl, i + 1, start + sl[i + 1].value * 360, tot)

RECURSIVE PieLoop(_, _, _, _)
PieLoop(sl, i, start, tot) ==
    IF i >= Len(sl) THEN <<>>
    ELSE IF sl[i + 1].value <= 0 THEN PieLoop(sl, i + 1, start, tot)
    ELSE <<PieSlice(sl[i + 1], i, start, tot)>>
            \o PieLoop(sl, i + 1, start + sl[i + 1].value * 360, tot)

make_pie_paths(sl, tot) == IF tot <= 0 THEN <<>> ELSE PieLoop(sl, 0, 0, tot)

-----------------------------------------------------------------------------
(* Category names, as character codes *)

Food == <<70, 111, 111, 100>>
Bills == <<66, 105, 108, 108, 115>>
Foo == <<70, 111, 111>>
Travel == <<84, 114, 97, 118, 101, 108>>

\* deliberately not in ascending order; Foo is a proper prefix of Food
CatList == <<Food, Foo, Bills, Travel>>

-----------------------------------------------------------------------------
(* Specification SpecCompare: the comparison derivation applied to any two   *)
(* category -> total maps.  The period totals are the sums of the maps'      *)
(* values, as totals_for_month returns them.                                 *)

MaxCats == 2

CmpCats == {CatList[i] : i \in 1..MaxCats}

\* per-category sums, in mills: zero, below half a cent, positive, negative
CmpValues == {0, 4, 1000, 3000, -2000}

TotalsMaps == UNION {[S -> CmpValues] : S \in SUBSET CmpCats}

RECURSIVE SumMap(_, _)
SumMap(m, keys) ==
    IF keys = {} THEN 0
    ELSE LET k == CHOOSE x \in keys : TRUE
         IN  m[k] + SumMap(m, keys \ {k})

NotBuilt == [by |-> "none"]

\* bar_max_width = vg_width - left_padding - (vg_width // 3) - 40
vg_width == 1200
left_padding == 320
bar_max_width == vg_width - left_padding - (vg_width \div 3) - 40

\* p_w = (p / max_bar_value) * bar_max_width if max_bar_value else 0, in
\* hundredths of a pixel as the format {p_w:.2f} prints it
BarWidth(v, max_bar_value) ==
    IF max_bar_value # 0 THEN RoundDiv(v * bar_max_width * 100, max_bar_value) ELSE 0

\* the bar pair of every row, drawn by download_summary_svg alone
Bars(comparison, max_bar_value) ==
    [i \in 1..Len(comparison) |->
        [p_w |-> BarWidth(comparison[i].primary, max_bar_value),
         c_w |-> BarWidth(comparison[i].compare, max_bar_value)]]

\* what both handlers derive from the two periods' totals; monthly_summary
\* hands max_bar_value to its template and draws no bar itself
ComparisonData(by, primary_totals_map, primary_total, compare_totals_map, compare_total) ==
    LET comparison == Comparison(primary_totals_map, compare_totals_map)
        max_bar_value == MaxBarValue(comparison, primary_total, compare_total)
    IN  [by |-> by,
         comparison |-> comparison,
         primary_slices |-> PrimarySlices(comparison),
         compare_slices |-> CompareSlices(comparison),
         max_bar_value |-> max_bar_value,
         bars |-> IF by = "download_summary_svg"
                  THEN Bars(comparison, max_bar_value) ELSE <<>>]

IdleApp ==
    /\ users = <<>> /\ session = <<>> /\ expenses = <<>>
    /\ today = MkDate(2024, 1, 15) /\ resp = [handler |-> "none", status |-> "none"]

IdleCmp ==
    /\ pmap = <<>> /\ cmap = <<>> /\ ptotal = 0 /\ ctotal = 0 /\ cmp = NotBuilt

IdlePie ==
    /\ slices = <<>> /\ total = 0 /\ paths = [called |-> FALSE]

InitCompare ==
    /\ pmap \in TotalsMaps
    /\ cmap \in TotalsMaps
    /\ ptotal = SumMap(pmap, DOMAIN pmap)
    /\ ctotal = SumMap(cmap, DOMAIN cmap)
    /\ cmp = NotBuilt
    /\ IdleApp /\ IdlePie

SummaryCompare ==
    /\ cmp = NotBuilt
    /\ cmp' = ComparisonData("monthly_summary", pmap, ptotal, cmap, ctotal)
    /\ UNCHANGED <<pmap, cmap, ptotal, ctotal, appVars, pieVars>>

DownloadCompare ==
    /\ cmp = NotBuilt
    /\ cmp' = ComparisonData("download_summary_svg", pmap, ptotal, cmap, ctotal)
    /\ UNCHANGED <<pmap, cmap, ptotal, ctotal, appVars, pieVars>>

NextCompare == SummaryCompare \/ DownloadCompare

SpecCompare == InitCompare /\ [][NextCompare]_vars

-----------------------------------------------------------------------------
(* Specification SpecPie: make_pie_paths applied to slices and a total.  As  *)
(* in its two callers, the slice values are the rounded per-category sums    *)
(* and the total is the sum of the unrounded ones.                           *)

MaxSlices == 3

PieValues == {-1000, 0, 4, 6, 1000, 2000, 5000}

RawSums == UNION {[1..n -> PieValues] : n \in 0..MaxSlices}

SlicesOf(raws) ==
    [i \in 1..Len(raws) |->
        [category |-> SortedStrs(Range(CatList))[i], value |-> Round2(raws[i])]]

InitPie ==
    /\ \E raws \in RawSums :
         /\ slices = SlicesOf(raws)
         /\ total = SumSeq(raws)
    /\ paths = [called |-> FALSE]
    /\ IdleApp /\ IdleCmp

CallMakePiePaths ==
    /\ ~paths.called
    /\ paths' = [called |-> TRUE, out |-> make_pie_paths(slices, total)]
    /\ UNCHANGED <<slices, total, appVars, cmpVars>>

NextPie == CallMakePiePaths

SpecPie == InitPie /\ [][NextPie]_vars

-----------------------------------------------------------------------------
(* Claims about the comparison derivation (SpecCompare) *)

CmpBuilt == cmp.by # "none"

CmpRows == cmp.comparison

\* the scenario of the specification: primary {Food: 100, Travel: 50},
\* compare {Food: 80}
ScenarioPrimary == [c \in {Food, Travel} |-> IF c = Food THEN 100000 ELSE 50000]
ScenarioCompare == [c \in {Food} |-> 80000]
ScenarioRows ==
    << [category |-> Food, primary |-> 100000, compare |-> 80000, diff |-> 20000,
        pct_change |-> PctNum(2500)],
       [category |-> Travel, primary |-> 50000, compare |-> 0, diff |-> 50000,
        pct_change |-> PctInf] >>

\* C1: the comparison rows hold exactly one row per category of the union of
\* the two maps' keys and no other row, in ascending order of category; a
\* category absent from a period has that period's value 0.
C1_RowsAreSortedUnion ==
    /\ Comparison(ScenarioPrimary, ScenarioCompare) = ScenarioRows
    /\ CmpBuilt =>
         /\ {CmpRows[i].category : i \in 1..Len(CmpRows)} = DOMAIN pmap \cup DOMAIN cmap
         /\ Len(CmpRows) = Cardinality(DOMAIN pmap \cup DOMAIN cmap)
         /\ \A i, j \in 1..Len(CmpRows) :
               i < j => StrLess(CmpRows[i].category, CmpRows[j].category)
         /\ \A i \in 1..Len(CmpRows) :
               /\ CmpRows[i].category \notin DOMAIN pmap => CmpRows[i].primary = 0
               /\ CmpRows[i].category \notin DOMAIN cmap => CmpRows[i].compare = 0
               /\ CmpRows[i].category \in DOMAIN pmap =>
                     CmpRows[i].primary = Round2(pmap[CmpRows[i].category])
               /\ CmpRows[i].category \in DOMAIN cmap =>
                     CmpRows[i].compare = Round2(cmap[CmpRows[i].category])

\* C1 witness: rows built from two maps that share no category, so that both
\* rows have an absent side and the keys must be reordered
C1_Witness ==
    /\ cmp.by = "download_summary_svg"
    /\ DOMAIN pmap = {Food} /\ DOMAIN cmap = {Foo}
    /\ pmap[Food] = 3000 /\ cmap[Foo] = 1000
    /\ Len(CmpRows) = 2
    /\ CmpRows[1].category = Foo /\ CmpRows[1].primary = 0
    /\ CmpRows[2].category = Food /\ CmpRows[2].compare = 0

\* C2 as stated: null when c = 0 and p = 0, the sentinel when c = 0 and
\* p # 0, otherwise exactly the number (p - c) / c * 100 (pct_change.v is in
\* hundredths of a percent, p and c in mills)
C2_ExactPercent ==
    CmpBuilt =>
      \A i \in 1..Len(CmpRows) :
        LET p == CmpRows[i].primary
            c == CmpRows[i].compare
            pct == CmpRows[i].pct_change
        IN  /\ (c = 0 /\ p = 0) => pct = PctNone
            /\ (c = 0 /\ p # 0) => pct = PctInf
            /\ c # 0 => (pct.k = "num" /\ pct.v * c = (p - c) * 10000)

\* C2 amended: the three outcomes are exclusive and cover every (p, c); the
\* number is (p - c) / c * 100 rounded to two decimals, that is the multiple
\* of 0.01 nearest to it
C2_RoundedPercent ==
    CmpBuilt =>
      \A i \in 1..Len(CmpRows) :
        LET p == CmpRows[i].primary
            c == CmpRows[i].compare
            pct == CmpRows[i].pct_change
        IN  /\ pct.k \in {"none", "inf", "num"}
            /\ pct.k = "none" <=> (c = 0 /\ p = 0)
            /\ pct.k = "inf" <=> (c = 0 /\ p # 0)
            /\ pct.k = "num" <=> c # 0
            /\ pct.k = "num" =>
                  2 * Abs(pct.v * c - (p - c) * 10000) <= Abs(c)

\* C2 witness: one row with the sentinel and one with a number that is not a
\* whole multiple of 0.01
C2_Witness ==
    /\ CmpBuilt
    /\ \E i, j \in 1..Len(CmpRows) :
         /\ CmpRows[i].pct_change = PctInf /\ CmpRows[i].primary < 0
         /\ CmpRows[j].pct_change = PctNum(-6667)
         /\ CmpRows[j].primary = 1000 /\ CmpRows[j].compare = 3000

CmpRowValues ==
    {CmpRows[i].primary : i \in 1..Len(CmpRows)}
        \cup {CmpRows[i].compare : i \in 1..Len(CmpRows)}

\* C6: the bar-scaling denominator is never zero: it is the largest category
\* value when that is positive, otherwise max(primary total, compare total,
\* 1); with all values and both totals zero it is 1.0 and every bar is 0 wide.
C6_DenominatorNeverZero ==
    CmpBuilt =>
      /\ cmp.max_bar_value # 0
      /\ IF \E v \in CmpRowValues : v > 0
         THEN /\ cmp.max_bar_value \in CmpRowValues
              /\ \A v \in CmpRowValues : v <= cmp.max_bar_value
         ELSE cmp.max_bar_value = Max2(Max2(ptotal, ctotal), One)
      /\ ((\A v \in CmpRowValues : v = 0) /\ ptotal = 0 /\ ctotal = 0) =>
            /\ cmp.max_bar_value = One
            /\ \A i \in 1..Len(cmp.bars) : cmp.bars[i].p_w = 0 /\ cmp.bars[i].c_w = 0
      /\ cmp.by = "download_summary_svg" => Len(cmp.bars) = Len(CmpRows)

\* C6 witness: the download handler drew the bars of two categories whose
\* values and period totals are all zero
C6_Witness ==
    /\ cmp.by = "download_summary_svg"
    /\ Len(CmpRows) = 2 /\ CmpRowValues = {0}
    /\ ptotal = 0 /\ ctotal = 0
    /\ cmp.max_bar_value = One
    /\ Len(cmp.bars) = 2 /\ cmp.bars[1].p_w = 0 /\ cmp.bars[2].c_w = 0

-----------------------------------------------------------------------------
(* Claims about make_pie_paths (SpecPie) *)

PieOut == paths.out

RECURSIVE SumSpans(_)
SumSpans(out) ==
    IF out = <<>> THEN 0 ELSE (Head(out).end - Head(out).start) + SumSpans(Tail(out))

PositiveIndexes == {i \in 1..Len(slices) : slices[i].value > 0}

\* C4: with total <= 0 no slice is emitted, whatever the slices; with
\* total > 0 exactly the input slices of strictly positive value are emitted,
\* each once, in input order, and none of value <= 0.
C4_EmitsPositiveSlicesInOrder ==
    paths.called =>
       /\ total <= 0 => PieOut = <<>>
       /\ total > 0 =>
            /\ Len(PieOut) = Cardinality(PositiveIndexes)
            /\ {PieOut[k].index + 1 : k \in 1..Len(PieOut)} = PositiveIndexes
            /\ \A k \in 1..Len(PieOut) :
                 /\ PieOut[k].label = slices[PieOut[k].index + 1].category
                 /\ PieOut[k].value = slices[PieOut[k].index + 1].value
                 /\ PieOut[k].value > 0
            /\ \A k \in 2..Len(PieOut) : PieOut[k - 1].index < PieOut[k].index

\* C4 witness: three slices, the middle one of value 0, total > 0: the two
\* positive slices are emitted
C4_Witness ==
    /\ paths.called /\ total > 0
    /\ Len(slices) = 3 /\ slices[2].value = 0
    /\ slices[1].value > 0 /\ slices[3].value > 0
    /\ Len(PieOut) = 2 /\ PieOut[1].index = 0 /\ PieOut[2].index = 2

-----------------------------------------------------------------------------
(* The web application: state *)
(*   users     username -> [id, password]   (table user)                     *)
(*   session   the browser session's cookie: empty, or user_id and username  *)
(*   expenses  id -> [title, amount, category, date]   (table expense)       *)
(*   today     datetime.utcnow().date()                                      *)
(*   resp      the response to the latest request, with what the handler     *)
(*             computed on the way                                           *)

MaxExpenses == 2

Tea == <<84, 101, 97>>
Bus == <<66, 117, 115>>
Alice == <<97, 108>>

\* generate_password_hash / check_password_hash
PasswordHash(password) == <<"hash", password>>
CheckPasswordHash(hash, password) == hash = PasswordHash(password)

LoggedIn == "user_id" \in DOMAIN session

\* request.args.get(name, default, type=int): the raw text of one argument
ArgAbsent == [k |-> "absent"]
ArgInt(n) == [k |-> "int", v |-> n]
ArgBad == [k |-> "bad"]

IsGiven(raw) == raw.k = "int"

\* the int of the argument, or the default when it is absent or no int
IntArg(raw, default) == IF raw.k = "int" THEN raw.v ELSE default

\* a form's amount field, as float() sees it
AmtNum(v) == [k |-> "num", v |-> v]
AmtBad == [k |-> "bad"]
AmtEmpty == [k |-> "empty"]

\* a form's date field: empty, digits Y-M-D (in range or not), or other text
DateEmpty == [k |-> "empty"]
DateYMD(y, m, d) == [k |-> "ymd", y |-> y, m |-> m, d |-> d]
DateBad == [k |-> "bad"]

\* datetime.strptime(date_str, '%Y-%m-%d') succeeds
Parses(date_str) ==
    date_str.k = "ymd" /\ ValidDate(date_str.y, date_str.m, date_str.d)

Parsed(date_str) == MkDate(date_str.y, date_str.m, date_str.d)

Form(title, amount, category, date_str) ==
    [title |-> title, amount |-> amount, category |-> category, date |-> date_str]

\* the forms a browser posts to /add and /edit
Forms ==
    { Form(Tea, AmtNum(1000), Food, DateYMD(2023, 1, 20)),
      Form(Bus, AmtNum(4), Bills, DateEmpty),
      Form(Bus, AmtNum(-2000), Bills, DateEmpty),
      Form(Tea, AmtNum(3000), Food, DateYMD(2024, 2, 30)),
      Form(Tea, AmtEmpty, Food, DateEmpty),
      Form(Tea, AmtBad, Food, DateBad),
      Form(<<>>, AmtNum(1000), Bills, DateBad) }

\* a GET carries no form
NoForm == Form(<<>>, AmtEmpty, <<>>, DateEmpty)

FormRequests == {<<"GET", NoForm>>} \cup {<<"POST", f>> : f \in Forms}

\* the days the server runs through
Days == <<MkDate(2024, 1, 15), MkDate(2024, 2, 1)>>

NoResponse == [handler |-> "none", status |-> "none"]

\* the browser has rendered the previous response and may send a request
Idle == resp = NoResponse

LoginRedirect(handler) == [handler |-> handler, status |-> "redirect_login"]

Init ==
    /\ users = <<>>
    /\ session = <<>>
    /\ expenses = <<>>
    /\ today = Days[1]
    /\ resp = NoResponse
    /\ IdleCmp /\ IdlePie

\* datetime.utcnow().date() moves on to the next day
Tick ==
    /\ Idle
    /\ \E i \in 1..(Len(Days) - 1) : today = Days[i] /\ today' = Days[i + 1]
    /\ UNCHANGED <<users, session, expenses, resp, cmpVars, pieVars>>

\* the browser renders the response (or follows its redirect); the session
\* sends its next request only then
Render ==
    /\ ~Idle
    /\ resp' = NoResponse
    /\ UNCHANGED <<users, session, expenses, today, cmpVars, pieVars>>

-----
(* Auth routes *)

Signup(method, username, password) ==
    /\ Idle
    /\ IF method = "POST"
       THEN LET u == Strip(username)
                pw == Strip(password)
            IN  IF u = <<>> \/ pw = <<>>
                THEN /\ resp' = [handler |-> "signup", status |-> "redirect_signup"]
                     /\ UNCHANGED users
                ELSE IF u \in DOMAIN users
                THEN /\ resp' = [handler |-> "signup", status |-> "redirect_signup"]
                     /\ UNCHANGED users
                ELSE /\ users' = [n \in DOMAIN users \cup {u} |->
                                    IF n = u
                                    THEN [id |-> Cardinality(DOMAIN users) + 1,
                                          password |-> PasswordHash(pw)]
                                    ELSE users[n]]
                     /\ resp' = [handler |-> "signup", status |-> "redirect_login"]
       ELSE /\ resp' = [handler |-> "signup", status |-> "render"]
            /\ UNCHANGED users
    /\ UNCHANGED <<session, expenses, today, cmpVars, pieVars>>

Login(method, username, password) ==
    /\ Idle
    /\ IF LoggedIn
       THEN /\ resp' = [handler |-> "login", status |-> "redirect_index"]
            /\ UNCHANGED session
       ELSE IF method = "POST"
       THEN LET u == Strip(username)
                pw == Strip(password)
            IN  IF u \in DOMAIN users /\ CheckPasswordHash(users[u].password, pw)
                THEN /\ session' = [user_id |-> users[u].id, username |-> u]
                     /\ resp' = [handler |-> "login", status |-> "redirect_next"]
                ELSE /\ resp' = [handler |-> "login", status |-> "redirect_login"]
                     /\ UNCHANGED session
       ELSE /\ resp' = [handler |-> "login", status |-> "render"]
            /\ UNCHANGED session
    /\ UNCHANGED <<users, expenses, today, cmpVars, pieVars>>

Logout ==
    /\ Idle
    /\ session' = <<>>
    /\ resp' = [handler |-> "logout", status |-> "redirect_login"]
    /\ UNCHANGED <<users, expenses, today, cmpVars, pieVars>>

-----------------------------------------------------------------------------
(* Expense routes *)

Truthy(raw) == raw.k = "int" /\ raw.v # 0

All == <<97, 108, 108>>

\* IndexFilters with each of month and year filtering on its own
IndexFiltersEitherDate(e, q, category, month, year) ==
    /\ q # <<>> => ILikeContains(e.title, q)
    /\ (category # <<>> /\ Lower(category) # All) => e.category = category
    /\ Truthy(year) => e.date.y = year.v
    /\ Truthy(month) => e.date.m = month.v

\* the filters list of index: every filter appended holds of the row
IndexFilters(e, q, category, month, year) ==
    /\ q # <<>> => ILikeContains(e.title, q)
    /\ (category # <<>> /\ Lower(category) # All) => e.category = category
    /\ (Truthy(month) /\ Truthy(year)) => (e.date.y = year.v /\ e.date.m = month.v)

\* order_by(Expense.date.desc()): latest first, rows of one date by rowid
RECURSIVE OrderByDateDesc(_, _)
OrderByDateDesc(exps, ids) ==
    IF ids = {} THEN <<>>
    ELSE LET first == CHOOSE i \in ids : \A j \in ids \ {i} :
                        \/ DateKey(exps[i].date) > DateKey(exps[j].date)
                        \/ (DateKey(exps[i].date) = DateKey(exps[j].date) /\ i < j)
         IN  <<first>> \o OrderByDateDesc(exps, ids \ {first})

\* round(sum_query.scalar() or 0.0, 2)
MonthTotal(exps, ids) == Round2(SumAmounts(exps, ids))

Index(q_raw, category_raw, month, year) ==
    /\ Idle
    /\ IF ~LoggedIn
       THEN resp' = LoginRedirect("index")
       ELSE LET q == Strip(q_raw)
                category == Strip(category_raw)
                ids == {i \in DOMAIN expenses :
                          IndexFilters(expenses[i], q, category, month, year)}
            IN  resp' = [handler |-> "index", status |-> "ok",
                         expenses |-> OrderByDateDesc(expenses, ids),
                         month_total |-> MonthTotal(expenses, ids),
                         q |-> q, selected_category |-> category,
                         filter_month |-> month, filter_year |-> year]
    /\ UNCHANGED <<users, session, expenses, today, cmpVars, pieVars>>

\* the date add_expense stores
AddDate(date_str, now) ==
    IF date_str.k = "empty" THEN now
    ELSE IF Parses(date_str) THEN Parsed(date_str) ELSE now

\* EditDate with add_expense's fallback to the current date
EditDateFallsBackToNow(date_str, old) ==
    IF date_str.k = "empty" THEN old
    ELSE IF Parses(date_str) THEN Parsed(date_str) ELSE today

\* the date edit_expense leaves in the row
EditDate(date_str, old) ==
    IF date_str.k = "empty" THEN old
    ELSE IF Parses(date_str) THEN Parsed(date_str) ELSE old

\* the rowid an INTEGER PRIMARY KEY row gets: one more than the largest
NextId == IF DOMAIN expenses = {} THEN 1
          ELSE 1 + (CHOOSE i \in DOMAIN expenses : \A j \in DOMAIN expenses : j <= i)

AddExpense(method, form) ==
    /\ Idle
    /\ IF ~LoggedIn
       THEN /\ resp' = LoginRedirect("add_expense")
            /\ UNCHANGED expenses
       ELSE IF method = "GET"
       THEN /\ resp' = [handler |-> "add_expense", status |-> "render"]
            /\ UNCHANGED expenses
       ELSE IF form.title = <<>> \/ form.amount.k = "empty" \/ form.category = <<>>
       THEN /\ resp' = [handler |-> "add_expense", status |-> "redirect_add",
                        form |-> form, at |-> today]
            /\ UNCHANGED expenses
       ELSE IF form.amount.k # "num"
       THEN \* float(amount) raises ValueError: nothing is committed
            /\ resp' = [handler |-> "add_expense", status |-> "error500",
                        form |-> form, at |-> today]
            /\ UNCHANGED expenses
       ELSE /\ NextId <= MaxExpenses
            /\ expenses' = [i \in DOMAIN expenses \cup {NextId} |->
                              IF i = NextId
                              THEN [title |-> form.title, amount |-> form.amount.v,
                                    category |-> form.category,
                                    date |-> AddDate(form.date, today)]
                              ELSE expenses[i]]
            /\ resp' = [handler |-> "add_expense", status |-> "created",
                        form |-> form, at |-> today, id |-> NextId]
    /\ UNCHANGED <<users, session, today, cmpVars, pieVars>>

EditExpense(expense_id, method, form) ==
    /\ Idle
    /\ IF ~LoggedIn
       THEN /\ resp' = LoginRedirect("edit_expense")
            /\ UNCHANGED expenses
       ELSE IF expense_id \notin DOMAIN expenses
       THEN /\ resp' = [handler |-> "edit_expense", status |-> "not_found"]
            /\ UNCHANGED expenses
       ELSE IF method = "GET"
       THEN /\ resp' = [handler |-> "edit_expense", status |-> "render",
                        id |-> expense_id]
            /\ UNCHANGED expenses
       ELSE IF form.amount.k # "num"
       THEN \* float(...) raises ValueError before the commit: the row is kept
            /\ resp' = [handler |-> "edit_expense", status |-> "error500",
                        form |-> form, at |-> today, id |-> expense_id]
            /\ UNCHANGED expenses
       ELSE /\ expenses' = [expenses EXCEPT ![expense_id] =
                              [title |-> form.title, amount |-> form.amount.v,
                               category |-> form.category,
                               date |-> EditDate(form.date, @.date)]]
            /\ resp' = [handler |-> "edit_expense", status |-> "updated",
                        form |-> form, at |-> today, id |-> expense_id,
                        before |-> expenses[expense_id].date]
    /\ UNCHANGED <<users, session, today, cmpVars, pieVars>>

ConfirmDeletePage(expense_id) ==
    /\ Idle
    /\ IF ~LoggedIn
       THEN resp' = LoginRedirect("confirm_delete_page")
       ELSE IF expense_id \notin DOMAIN expenses
       THEN resp' = [handler |-> "confirm_delete_page", status |-> "not_found"]
       ELSE resp' = [handler |-> "confirm_delete_page", status |-> "render",
                     id |-> expense_id]
    /\ UNCHANGED <<users, session, expenses, today, cmpVars, pieVars>>

\* DeleteExpense without the login_required wrapper
DeleteExpenseUnprotected(expense_id) ==
    /\ Idle
    /\ IF expense_id \notin DOMAIN expenses
       THEN /\ resp' = [handler |-> "delete_expense", status |-> "not_found"]
            /\ UNCHANGED expenses
       ELSE /\ expenses' = [i \in DOMAIN expenses \ {expense_id} |-> expenses[i]]
            /\ resp' = [handler |-> "delete_expense", status |-> "redirect_index",
                        id |-> expense_id]
    /\ UNCHANGED <<users, session, today, cmpVars, pieVars>>

DeleteExpense(expense_id) ==
    /\ Idle
    /\ IF ~LoggedIn
       THEN /\ resp' = LoginRedirect("delete_expense")
            /\ UNCHANGED expenses
       ELSE IF expense_id \notin DOMAIN expenses
       THEN /\ resp' = [handler |-> "delete_expense", status |-> "not_found"]
            /\ UNCHANGED expenses
       ELSE /\ expenses' = [i \in DOMAIN expenses \ {expense_id} |-> expenses[i]]
            /\ resp' = [handler |-> "delete_expense", status |-> "redirect_index",
                        id |-> expense_id]
    /\ UNCHANGED <<users, session, today, cmpVars, pieVars>>

-----------------------------------------------------------------------------
(* Summary routes *)

Args(month, year, compare_month, compare_year) ==
    [month |-> month, year |-> year,
     compare_month |-> compare_month, compare_year |-> compare_year]

\* date(year, month, 1) - timedelta(days=1) can be computed
PrevMonthDefined(month, year) ==
    ValidDate(year, month, 1) /\ HasPrevDay(MkDate(year, month, 1))

\* ComparePeriod using whichever of the two arguments was supplied
ComparePeriodKeepsLoneArg(args, month, year) ==
    LET prev_month_last_day == PrevDay(MkDate(year, month, 1))
    IN  [month |-> IntArg(args.compare_month, prev_month_last_day.m),
         year |-> IntArg(args.compare_year, prev_month_last_day.y)]

\* compare_month, compare_year: from the request when both are ints, else the
\* month of the day before the first of the primary month
ComparePeriod(args, month, year) ==
    IF ~IsGiven(args.compare_month) \/ ~IsGiven(args.compare_year)
    THEN LET prev_month_last_day == PrevDay(MkDate(year, month, 1))
         IN  [month |-> prev_month_last_day.m, year |-> prev_month_last_day.y]
    ELSE [month |-> args.compare_month.v, year |-> args.compare_year.v]

\* calendar.month_name[m] is defined (a 13-entry sequence, Python indexing)
MonthNameDefined(m) == m >= -13 /\ m <= 12

\* the request raises before a response is built
SummaryFails(args, month, year) ==
    \/ /\ ~IsGiven(args.compare_month) \/ ~IsGiven(args.compare_year)
       /\ ~PrevMonthDefined(month, year)
    \/ ~MonthNameDefined(month)
    \/ ~MonthNameDefined(ComparePeriod(args, month, year).month)

\* what monthly_summary and download_summary_svg both compute (overall_pct is
\* computed by monthly_summary alone)
SummaryData(handler, args) ==
    LET month == IntArg(args.month, today.m)
        year == IntArg(args.year, today.y)
        cp == ComparePeriod(args, month, year)
        primary == totals_for_month(expenses, month, year)
        compare == totals_for_month(expenses, cp.month, cp.year)
        data == ComparisonData(handler, primary.totals, primary.total,
                               compare.totals, compare.total)
    IN  [handler |-> handler, status |-> "ok", req |-> args,
         month |-> month, year |-> year,
         compare_month |-> cp.month, compare_year |-> cp.year,
         primary |-> primary, compare |-> compare,
         data |-> data,
         overall_pct |-> IF handler = "monthly_summary"
                         THEN OverallPct(primary.total, compare.total)
                         ELSE PctNone,
         primary_pie |-> make_pie_paths(data.primary_slices, primary.total),
         compare_pie |-> make_pie_paths(data.compare_slices, compare.total)]

SummaryResponse(handler, args) ==
    LET month == IntArg(args.month, today.m)
        year == IntArg(args.year, today.y)
    IN  IF SummaryFails(args, month, year)
        THEN [handler |-> handler, status |-> "error500", req |-> args]
        ELSE SummaryData(handler, args)

MonthlySummary(args) ==
    /\ Idle
    /\ IF ~LoggedIn
       THEN resp' = LoginRedirect("monthly_summary")
       ELSE resp' = SummaryResponse("monthly_summary", args)
    /\ UNCHANGED <<users, session, expenses, today, cmpVars, pieVars>>

-----------------------------------------------------------------------------
(* The layout of the downloaded SVG document *)

row_h == 56
top_margin == 42
pie_area_height == 280
pie2_top == 320

bar_area_height(rows) == top_margin + (rows * row_h) + 40

vg_height(rows) == Max2(bar_area_height(rows), pie_area_height + 40)

pie_left == left_padding + bar_max_width + 40

Box(x, y, w, h) == [x |-> x, y |-> y, w |-> w, h |-> h]

\* the two rects of bar row k (0-based); widths are kept in hundredths of a
\* pixel in `bars`, the boxes here carry the rows' vertical extent and the
\* full bar_max_width
BarRowBox(k) == Box(left_padding, (top_margin + k * row_h) - 8, bar_max_width, 8 + 12 + 14)

\* <g transform="translate(pie_left, top)">: a title line at the origin and
\* the 240 x 240 pie 12 below it
PieBox(top) == Box(pie_left, top, 240, 12 + 240)

\* entry i (0-based) of the colour key: a 12 x 10 rect at x = i * 160
LegendBox(i, rows) == Box(pie_left + i * 160, vg_height(rows) - 80, 12, 10)

Layout(categories) ==
    LET rows == Len(categories)
    IN  [width |-> vg_width,
         height |-> vg_height(rows),
         bar_rows |-> [k \in 1..rows |-> BarRowBox(k - 1)],
         primary_pie |-> PieBox(40),
         compare_pie |-> PieBox(pie2_top),
         legend |-> [k \in 1..rows |->
                       [box |-> LegendBox(k - 1, rows),
                        color |-> Palette[((k - 1) % Len(Palette)) + 1],
                        category |-> categories[k]]]]

DownloadSummarySvg(args) ==
    /\ Idle
    /\ IF ~LoggedIn
       THEN resp' = LoginRedirect("download_summary_svg")
       ELSE LET r == SummaryResponse("download_summary_svg", args)
            IN  IF r.status = "ok"
                THEN resp' = [handler |-> "download_summary_svg", status |-> "ok",
                              summary |-> r,
                              layout |-> Layout(Categories(r.primary.totals,
                                                           r.compare.totals))]
                ELSE resp' = r
    /\ UNCHANGED <<users, session, expenses, today, cmpVars, pieVars>>

-----------------------------------------------------------------------------
(* Specification Spec: the requests of one browser session *)

Names == {Alice, <<32, 97, 108, 32>>, <<>>}
Passwords == {<<112>>, <<113>>}

SignupRequests == {<<"GET", <<>>, <<>>>>} \cup {<<"POST", u, <<112>>>> : u \in Names}
LoginRequests ==
    {<<"GET", <<>>, <<>>>>} \cup {<<"POST", u, pw>> : u \in Names, pw \in Passwords}

\* /?q=..&category=..&month=..&year=..
IndexRequests ==
    {<<q, c, d[1], d[2]>> :
        q \in {<<>>, <<32, 116, 69>>},
        c \in {<<65, 76, 76>>, Food},
        d \in {<<ArgAbsent, ArgAbsent>>, <<ArgInt(1), ArgAbsent>>,
               <<ArgAbsent, ArgInt(2024)>>, <<ArgInt(1), ArgInt(2024)>>}}
    \cup {<<<<98, 95, 115>>, <<32>>, ArgBad, ArgInt(2024)>>,
          <<<<>>, All, ArgAbsent, ArgAbsent>>,
          <<<<>>, <<>>, ArgInt(0), ArgInt(2024)>>}

\* /summary?month=..&year=..&compare_month=..&compare_year=..
SummaryArgs ==
    { Args(ArgAbsent, ArgAbsent, ArgAbsent, ArgAbsent),
      Args(ArgInt(1), ArgInt(2024), ArgAbsent, ArgAbsent),
      Args(ArgInt(2), ArgInt(2024), ArgAbsent, ArgInt(2023)),
      Args(ArgInt(1), ArgInt(2024), ArgInt(1), ArgAbsent),
      Args(ArgInt(1), ArgInt(2024), ArgInt(1), ArgInt(2023)),
      Args(ArgBad, ArgInt(2024), ArgInt(1), ArgBad),
      Args(ArgInt(13), ArgAbsent, ArgAbsent, ArgAbsent),
      Args(ArgInt(2), ArgInt(2024), ArgInt(13), ArgInt(2023)) }

ExpenseIds == 1..(MaxExpenses + 1)

Next ==
    \/ Render
    \/ Tick
    \/ \E r \in SignupRequests : Signup(r[1], r[2], r[3])
    \/ \E r \in LoginRequests : Login(r[1], r[2], r[3])
    \/ Logout
    \/ \E r \in IndexRequests : Index(r[1], r[2], r[3], r[4])
    \/ \E r \in FormRequests : AddExpense(r[1], r[2])
    \/ \E i \in ExpenseIds, r \in FormRequests : EditExpense(i, r[1], r[2])
    \/ \E i \in ExpenseIds : ConfirmDeletePage(i)
    \/ \E i \in ExpenseIds : DeleteExpense(i)
    \/ \E a \in SummaryArgs : MonthlySummary(a)
    \/ \E a \in SummaryArgs : DownloadSummarySvg(a)

Spec == Init /\ [][Next]_vars

-----------------------------------------------------------------------------
(* Claims about the application (Spec) *)

SummaryOk ==
    resp.handler \in {"monthly_summary", "download_summary_svg"} /\ resp.status = "ok"

\* the summary computed by the latest request
Summary == IF resp.handler = "download_summary_svg" THEN resp.summary ELSE resp

PeriodRows(month, year) ==
    {i \in DOMAIN expenses : expenses[i].date.m = month /\ expenses[i].date.y = year}

PeriodTotalsCorrect(res, month, year) ==
    LET rows == PeriodRows(month, year)
    IN  /\ DOMAIN res.totals = {expenses[i].category : i \in rows}
        /\ \A c \in DOMAIN res.totals :
              res.totals[c] = SumAmounts(expenses, {i \in rows : expenses[i].category = c})
        /\ res.total = SumMap(res.totals, DOMAIN res.totals)
        /\ rows = {} => (DOMAIN res.totals = {} /\ res.total = 0)

\* C5: totals_for_month returns a map whose keys are exactly the categories
\* of the records dated in the month and year, each valued with the sum of
\* those records' amounts, and a grand total equal to the sum of the map's
\* values; other records contribute nothing; no match gives the empty map
\* and 0.
C5_TotalsForMonth ==
    SummaryOk =>
       /\ PeriodTotalsCorrect(Summary.primary, Summary.month, Summary.year)
       /\ PeriodTotalsCorrect(Summary.compare, Summary.compare_month, Summary.compare_year)

\* C5 witness: two stored records of one category fall in the compare period
\* January 2023 and are summed, while the primary period January 2024 has none
C5_Witness ==
    /\ SummaryOk
    /\ Summary.month = 1 /\ Summary.year = 2024
    /\ Summary.compare_month = 1 /\ Summary.compare_year = 2023
    /\ Cardinality(PeriodRows(1, 2023)) = 2
    /\ DOMAIN Summary.compare.totals = {Food}
    /\ Summary.compare.totals[Food] = 4000 /\ Summary.compare.total = 4000
    /\ DOMAIN Summary.primary.totals = {} /\ Summary.primary.total = 0

\* a form whose fields other than the date the handler accepts
FormAccepted ==
    /\ resp.handler \in {"add_expense", "edit_expense"}
    /\ resp.status \in {"created", "updated", "error500", "redirect_add"}
    /\ resp.form.amount.k = "num"
    /\ resp.handler = "add_expense" => (resp.form.title # <<>> /\ resp.form.category # <<>>)

\* C7 as stated: a date string that is no valid YYYY-MM-DD date does not fail
\* the request, and the record's stored date after it is the current date.
C7_MalformedDateBecomesToday ==
    (FormAccepted /\ ~Parses(resp.form.date)) =>
       /\ resp.status \in {"created", "updated"}
       /\ expenses[resp.id].date = resp.at

\* C7 amended: such a date string does not fail the request; add_expense
\* stores the current date, edit_expense leaves the record's date as it was.
C7_MalformedDateAddTodayEditKeeps ==
    (FormAccepted /\ ~Parses(resp.form.date)) =>
       /\ resp.status \in {"created", "updated"}
       /\ resp.handler = "add_expense" => expenses[resp.id].date = resp.at
       /\ resp.handler = "edit_expense" => expenses[resp.id].date = resp.before

\* C7 witness: a record dated 2023-01-20 was edited with a date field that
\* does not parse, on a later day
C7_Witness ==
    /\ resp.handler = "edit_expense" /\ resp.status = "updated"
    /\ resp.form.date = DateYMD(2024, 2, 30)
    /\ resp.before = MkDate(2023, 1, 20)
    /\ resp.at # resp.before
    /\ expenses[resp.id].date = MkDate(2023, 1, 20)

DownloadOk == resp.handler = "download_summary_svg" /\ resp.status = "ok"

Inside(b, width, height) ==
    /\ b.x >= 0 /\ b.y >= 0
    /\ b.x + b.w <= width
    /\ b.y + b.h <= height

Overlap(a, b) ==
    /\ a.x < b.x + b.w /\ b.x < a.x + a.w
    /\ a.y < b.y + b.h /\ b.y < a.y + a.h

\* C8 as stated: for every category count the declared view-box contains
\* every bar row, both pies and the colour-key legend, and the legend
\* overlaps no pie.
C8_ContentFitsViewBox ==
    DownloadOk =>
       LET l == resp.layout
       IN  /\ l.width = 1200
           /\ l.height = Max2(42 + 56 * Len(l.bar_rows) + 40, 280 + 40)
           /\ \A k \in 1..Len(l.bar_rows) : Inside(l.bar_rows[k], l.width, l.height)
           /\ Inside(l.primary_pie, l.width, l.height)
           /\ Inside(l.compare_pie, l.width, l.height)
           /\ \A k \in 1..Len(l.legend) :
                 /\ Inside(l.legend[k].box, l.width, l.height)
                 /\ ~Overlap(l.legend[k].box, l.primary_pie)
                 /\ ~Overlap(l.legend[k].box, l.compare_pie)

IndexOk == resp.handler = "index" /\ resp.status = "ok"

IndexRows == Range(resp.expenses)

NoCategoryFilter ==
    resp.selected_category = <<>> \/ Lower(resp.selected_category) = All

BothDateArgs == Truthy(resp.filter_month) /\ Truthy(resp.filter_year)

\* the rows the claim's filters select from the stored expenses
IndexExpected ==
    {i \in DOMAIN expenses :
        /\ resp.q # <<>> => ILikeContains(expenses[i].title, resp.q)
        /\ ~NoCategoryFilter => expenses[i].category = resp.selected_category
        /\ BothDateArgs => /\ expenses[i].date.m = resp.filter_month.v
                           /\ expenses[i].date.y = resp.filter_year.v}

IndexFiltering ==
    /\ Len(resp.expenses) = Cardinality(IndexRows)
    /\ IndexRows = IndexExpected
    /\ (~IsGiven(resp.filter_month) \/ ~IsGiven(resp.filter_year)) =>
          \A i \in DOMAIN expenses :
             i \in IndexRows <=>
                /\ resp.q # <<>> => ILikeContains(expenses[i].title, resp.q)
                /\ ~NoCategoryFilter => expenses[i].category = resp.selected_category

\* C9 as stated: the total index returns is the sum of the amounts of
\* exactly the rows it returns; 'all' in any case or an empty category
\* filters nothing; the month/year filter applies only when both are given.
C9_TotalIsSumOfRows ==
    IndexOk =>
       /\ resp.month_total = SumAmounts(expenses, IndexRows)
       /\ IndexFiltering

\* C9 amended: the total is the sum of the amounts of exactly the rows
\* returned, rounded to two decimals; the filters are as stated.
C9_TotalIsRoundedSumOfRows ==
    IndexOk =>
       /\ resp.month_total = Round2(SumAmounts(expenses, IndexRows))
       /\ 2 * Abs(resp.month_total - SumAmounts(expenses, IndexRows)) <= 10
       /\ IndexFiltering

\* C9 witness: month is given without year, the two stored records are of
\* different months and both are returned; their amounts sum to 1.004 and
\* the total is 1.0
C9_Witness ==
    /\ IndexOk
    /\ resp.filter_month = ArgInt(1) /\ resp.filter_year = ArgAbsent
    /\ Lower(resp.selected_category) = All
    /\ Len(resp.expenses) = 2
    /\ \E i, j \in IndexRows : expenses[i].date.m = 1 /\ expenses[j].date.m = 2
    /\ SumAmounts(expenses, IndexRows) = 1004
    /\ resp.month_total = 1000

\* C10: when compare_month or compare_year is missing from the request the
\* compare period is the calendar month before the primary one, (month - 1,
\* year) or (12, year - 1) for January, and a lone compare argument is
\* discarded; only when both are supplied is the period the request's.
C10_CompareDefaultsToPreviousMonth ==
    SummaryOk =>
       LET req == Summary.req
       IN  IF IsGiven(req.compare_month) /\ IsGiven(req.compare_year)
           THEN /\ Summary.compare_month = req.compare_month.v
                /\ Summary.compare_year = req.compare_year.v
           ELSE /\ Summary.month \in 1..12
                /\ Summary.month >= 2 =>
                      /\ Summary.compare_month = Summary.month - 1
                      /\ Summary.compare_year = Summary.year
                /\ Summary.month = 1 =>
                      /\ Summary.compare_month = 12
                      /\ Summary.compare_year = Summary.year - 1

\* C10 witness: compare_year = 2023 is supplied alone with the primary
\* period February 2024: the compare period is January 2024
C10_Witness ==
    /\ DownloadOk
    /\ Summary.req.compare_year = ArgInt(2023)
    /\ Summary.req.compare_month = ArgAbsent
    /\ Summary.month = 2 /\ Summary.year = 2024
    /\ Summary.compare_month = 1 /\ Summary.compare_year = 2024

SlicesTotal(sl) == SumSeq([i \in 1..Len(sl) |-> sl[i].value])

\* the claim of C3 for one call make_pie_paths(sl, tot) that returned out (a
\* span of 360 degrees is the numerator 360 * tot)
SpansPartitionCircle(sl, tot, out) ==
    (tot > 0 /\ tot = SlicesTotal(sl)) =>
       /\ SumSpans(out) = 360 * tot
       /\ out # <<>> => out[1].start = 0
       /\ \A k \in 2..Len(out) : out[k].start = out[k - 1].end

\* C3 as stated: when total > 0 and total is the sum of the values passed,
\* the spans of the emitted slices sum to 360 degrees, the first emitted
\* slice starts at 0 and every later one starts where the previous one ended;
\* stated of the two calls of every summary request.
C3_SpansPartitionCircle ==
    SummaryOk =>
       /\ SpansPartitionCircle(Summary.data.primary_slices, Summary.primary.total,
                               Summary.primary_pie)
       /\ SpansPartitionCircle(Summary.data.compare_slices, Summary.compare.total,
                               Summary.compare_pie)

-----------------------------------------------------------------------------
(* Specification SpecPalette: the colours of the downloaded document.  The   *)
(* two periods' totals maps are drawn over up to MaxKeys categories, more    *)
(* than the palette has colours; download_summary_svg builds both slice      *)
(* lists, both pies and the colour key from them.                            *)

MaxKeys == 7

\* the k-th category name: one capital letter, so the names sort by k
KeyName(k) == <<64 + k>>

\* how a category occurs in the two periods: spent in the primary period
\* only, in the compare period only, in both, or present in the primary
\* period with a sum of zero
KeyCases == {"primary", "compare", "both", "zero"}

KeyAssignments == UNION {[1..n -> KeyCases] : n \in 0..MaxKeys}

PrimaryMapOf(f) ==
    [c \in {KeyName(k) : k \in {j \in DOMAIN f : f[j] # "compare"}} |->
        LET k == CHOOSE j \in DOMAIN f : KeyName(j) = c
        IN  IF f[k] = "zero" THEN 0 ELSE 1000]

CompareMapOf(f) ==
    [c \in {KeyName(k) : k \in {j \in DOMAIN f : f[j] # "primary"}} |-> 2000]

InitPalette ==
    /\ \E f \in KeyAssignments :
         /\ pmap = PrimaryMapOf(f)
         /\ cmap = CompareMapOf(f)
    /\ ptotal = SumMap(pmap, DOMAIN pmap)
    /\ ctotal = SumMap(cmap, DOMAIN cmap)
    /\ cmp = NotBuilt
    /\ IdleApp /\ IdlePie

\* the coloured parts of the document download_summary_svg writes
DownloadColours ==
    /\ cmp = NotBuilt
    /\ LET categories == Categories(pmap, cmap)
           data == ComparisonData("download_summary_svg", pmap, ptotal, cmap, ctotal)
       IN  cmp' = [by |-> "download_summary_svg",
                   categories |-> categories,
                   primary_slices |-> data.primary_slices,
                   compare_slices |-> data.compare_slices,
                   primary_pie |-> make_pie_paths(data.primary_slices, ptotal),
                   compare_pie |-> make_pie_paths(data.compare_slices, ctotal),
                   legend |-> Layout(categories).legend]
    /\ UNCHANGED <<pmap, cmap, ptotal, ctotal, appVars, pieVars>>

NextPalette == DownloadColours

SpecPalette == InitPalette /\ [][NextPalette]_vars

-----------------------------------------------------------------------------
(* Claims about the colours (SpecPalette) *)

ColoursBuilt == cmp.by = "download_summary_svg"

\* the 0-based position of category cat in the input sequence sl
InputPosition(sl, cat) == (CHOOSE i \in 1..Len(sl) : sl[i].category = cat) - 1

\* every slice of pie has the colour palette[i mod 6], i its position in sl
ColouredByInputPosition(sl, pie) ==
    \A k \in 1..Len(pie) :
       /\ \E i \in 1..Len(sl) : sl[i].category = pie[k].label
       /\ pie[k].color = Palette[(InputPosition(sl, pie[k].label) % 6) + 1]

\* C11: every emitted slice has the colour palette[i mod 6], i being the
\* slice's position in the input sequence with the skipped slices counted;
\* and in the downloaded document a category has one colour in the primary
\* pie, in the compare pie and in the colour key.
C11_ColourFollowsInputPosition ==
    ColoursBuilt =>
       /\ ColouredByInputPosition(cmp.primary_slices, cmp.primary_pie)
       /\ ColouredByInputPosition(cmp.compare_slices, cmp.compare_pie)
       /\ \A k \in 1..Len(cmp.primary_pie), l \in 1..Len(cmp.compare_pie) :
             cmp.primary_pie[k].label = cmp.compare_pie[l].label
                => cmp.primary_pie[k].color = cmp.compare_pie[l].color
       /\ \A j \in 1..Len(cmp.legend) :
             /\ \A k \in 1..Len(cmp.primary_pie) :
                   cmp.legend[j].category = cmp.primary_pie[k].label
                      => cmp.legend[j].color = cmp.primary_pie[k].color
             /\ \A l \in 1..Len(cmp.compare_pie) :
                   cmp.legend[j].category = cmp.compare_pie[l].label
                      => cmp.legend[j].color = cmp.compare_pie[l].color

\* C11 witness: seven categories, the first skipped by the primary pie (no
\* spending in the primary period) and the seventh drawn in both pies: the
\* primary pie's first slice has the second colour, and the seventh category
\* wraps round to the first colour in both pies and in the colour key
C11_Witness ==
    /\ ColoursBuilt
    /\ Len(cmp.categories) = 7
    /\ cmp.primary_slices[1].value = 0
    /\ cmp.primary_pie # <<>> /\ cmp.primary_pie[1].color = Palette[2]
    /\ cmp.primary_pie[Len(cmp.primary_pie)].label = cmp.categories[7]
    /\ cmp.primary_pie[Len(cmp.primary_pie)].color = Palette[1]
    /\ cmp.compare_pie[Len(cmp.compare_pie)].label = cmp.categories[7]
    /\ cmp.compare_pie[Len(cmp.compare_pie)].color = Palette[1]
    /\ cmp.legend[7].color = Palette[1]

-----------------------------------------------------------------------------
(* Claims about the session (Spec) *)

Protected ==
    {"index", "add_expense", "edit_expense", "confirm_delete_page",
     "delete_expense", "monthly_summary", "download_summary_svg"}

\* this step is a POST to /login that names an existing user with the
\* matching password, and it stores that user's id in the session
SuccessfulLogin ==
    \E r \in LoginRequests :
       /\ Login(r[1], r[2], r[3])
       /\ r[1] = "POST"
       /\ Strip(r[2]) \in DOMAIN users
       /\ CheckPasswordHash(users[Strip(r[2])].password, Strip(r[3]))
       /\ session' = [user_id |-> users[Strip(r[2])].id, username |-> Strip(r[2])]

\* C12: in any sequence of requests of one browser session, the session
\* comes to hold a user_id only by a login that names an existing user with
\* the matching password, and a logout leaves none; the body of a protected
\* handler runs only while the session holds a user_id; and a protected
\* request without one is redirected to the login page with the stored
\* expenses unchanged.
C12_ProtectedNeedsLogin ==
    [][ /\ (LoggedIn' /\ session' # session) => SuccessfulLogin
        /\ resp'.handler = "logout" => ~LoggedIn'
        /\ (resp'.handler \in Protected /\ resp' # LoginRedirect(resp'.handler))
              => (LoggedIn /\ session' = session)
        /\ (resp'.handler \in Protected /\ ~LoggedIn)
              => (resp' = LoginRedirect(resp'.handler) /\ expenses' = expenses)
      ]_vars

\* C12 witness: after a login, an added expense and a logout, the request to
\* delete that expense is answered by the redirect to the login page and the
\* expense is still stored
C12_Witness ==
    /\ ~LoggedIn
    /\ DOMAIN users # {}
    /\ DOMAIN expenses # {}
    /\ resp = LoginRedirect("delete_expense")

-----------------------------------------------------------------------------
(* Claims about the wedges (Spec) *)

\* every slice of out spans more than 0 and less than 360 degrees (the
\* numerators are over den), and its large-arc flag is 1 exactly when the
\* span exceeds 180 degrees
ProperWedges(out) ==
    \A k \in 1..Len(out) :
       LET span == out[k].end - out[k].start
       IN  /\ span > 0
           /\ span < 360 * out[k].den
           /\ out[k].large_arc = (IF span > 180 * out[k].den THEN 1 ELSE 0)
           /\ out[k].large_arc \in {0, 1}

\* C13 as stated: every emitted slice is a non-degenerate wedge, its span
\* strictly between 0 and 360 degrees, also when one category carries the
\* whole total, and its large-arc flag is 1 exactly when the span exceeds 180
\* degrees; stated of the two pies of every summary request.
C13_SlicesAreProperWedges ==
    SummaryOk => (ProperWedges(Summary.primary_pie) /\ ProperWedges(Summary.compare_pie))

====
